---- MODULE Spec2Model ----
(***************************************************************************)
(* A model of the pricing engine of dex-protocol (core/src/lib.rs): the    *)
(* Pool aggregate, its construction, the constant-product quote, the       *)
(* liquidity deposit, the dynamic fee and the integer square root.         *)
(*                                                                         *)
(* BigUint values are naturals.  A u64 is kept as its residue modulo 2^64  *)
(* written in the window (-2^63, 2^63): a negative number r stands for the *)
(* u64 value 2^64 + r, so that u64::MAX is -1 and wrapping addition is the *)
(* addition of residues.  A HashMap is a function; where the code iterates *)
(* over one, the iteration order is an input of the operation.             *)
(***************************************************************************)
EXTENDS Integers, Sequences, FiniteSets

VARIABLES
    pool,       \* the Pool
    old,        \* the Pool as it was when the last call was made
    call,       \* the last call: the operation and its arguments
    ret,        \* what the last call returned
    deposited,  \* whether some add_liquidity call has returned Ok
    newton,     \* a loop of sqrt, calculate_d or calculate_y under way
    api         \* the lock of the pool store and the requests being served

vars == <<pool, old, call, ret, deposited, newton, api>>

----------------------------------------------------------------------------
(* Bounds of the model *)

MaxInitReserve == 2
MaxAmount == 2
MaxReserve == 3
MaxSupply == 3
MaxSqrtArg == 150

(* Token addresses: the two the pool tracks and one it does not *)
ETH == "ETH"
USDC == "USDC"
DAI == "DAI"
PoolTokens == <<ETH, USDC>>
Addresses == {ETH, USDC, DAI}

PoolTypes == {"ConstantProduct", "StableSwap", "ConcentratedLiquidity"}

(* fee_rate is in basis points, within [0, 10000] *)
FeeRates == {0, 300, 10000}

----------------------------------------------------------------------------
(* Result<T, E> *)

Ok(v) == [tag |-> "Ok", value |-> v, err |-> "-"]
Err(e) == [tag |-> "Err", value |-> 0, err |-> e]
Panic == [tag |-> "Panic", value |-> 0, err |-> "-"]
NoResult == [tag |-> "-", value |-> 0, err |-> "-"]

(* No loop is under way *)
NoLoop ==
    [fn |-> "-", n |-> 0, balances |-> <<>>, c |-> 0, b |-> 0, d |-> 0,
     prev |-> 0, cur |-> 0, i |-> 0, pc |-> "done"]

(* No request is being served *)
NoApi == [writer |-> 0, readers |-> {}, committed |-> "-", req |-> <<>>]

(* The product of the values of a map, starting from BigUint::one() *)
RECURSIVE ProductOver(_, _)
ProductOver(m, keys) ==
    IF keys = {} THEN 1
    ELSE LET k == CHOOSE x \in keys : TRUE
         IN  m[k] * ProductOver(m, keys \ {k})

Product(m) == ProductOver(m, DOMAIN m)

(* The orders in which a map with these keys may be iterated *)
Orders(keys) ==
    {s \in [1..Cardinality(keys) -> keys] :
        \A i, j \in 1..Cardinality(keys) : s[i] = s[j] => i = j}

----------------------------------------------------------------------------
(* fn sqrt(n: &BigUint) -> BigUint *)

(* The loop returning the last iterate y instead of x *)
RECURSIVE SqrtLoopReturnsY(_, _, _)
SqrtLoopReturnsY(n, x, y) ==
    IF y < x THEN SqrtLoopReturnsY(n, y, (y + n \div y) \div 2) ELSE y

(* while y < x { x = y; y = (x + n / x) / 2 }; x *)
RECURSIVE SqrtLoop(_, _, _)
SqrtLoop(n, x, y) ==
    IF y < x THEN SqrtLoop(n, y, (y + n \div y) \div 2) ELSE x

sqrt(n) == IF n = 0 THEN 0 ELSE SqrtLoop(n, n, (n + 1) \div 2)

----------------------------------------------------------------------------
(* Pool::new *)

(* The initial mint without the square root *)
Pool_new_without_sqrt(id, tokens, initial_reserves, fee_rate, pool_type) ==
    [id |-> id,
     tokens |-> tokens,
     reserves |-> initial_reserves,
     total_supply |-> IF pool_type = "ConstantProduct"
                      THEN Product(initial_reserves)
                      ELSE 0,
     fee_rate |-> fee_rate,
     pool_type |-> pool_type]

Pool_new(id, tokens, initial_reserves, fee_rate, pool_type) ==
    [id |-> id,
     tokens |-> tokens,
     reserves |-> initial_reserves,
     total_supply |-> IF pool_type = "ConstantProduct"
                      THEN sqrt(Product(initial_reserves))
                      ELSE 0,
     fee_rate |-> fee_rate,
     pool_type |-> pool_type]

----------------------------------------------------------------------------
(* Pool::constant_product_swap and Pool::calculate_swap_output *)

(* A fee that is never taken *)
input_amount_without_fee(fee_rate, input_amount) == input_amount

(* A fee that is added to the input instead of taken from it *)
input_amount_plus_fee(fee_rate, input_amount) ==
    (input_amount * (10000 + fee_rate)) \div 10000

(* Apply fee: input_amount * (10000 - fee_rate) / 10000 *)
input_amount_with_fee(fee_rate, input_amount) ==
    LET fee_multiplier == 10000 - fee_rate
    IN  (input_amount * fee_multiplier) \div 10000

(* The output at the spot price: the input is left out of the denominator *)
swap_output_at_spot_price(p, input_reserve, output_reserve, input_amount) ==
    LET with_fee == input_amount_with_fee(p.fee_rate, input_amount)
        output_amount == (with_fee * output_reserve) \div input_reserve
    IN  IF output_amount >= output_reserve
        THEN Err("InsufficientLiquidity")
        ELSE Ok(output_amount)

(* Calculate output: (input_with_fee * output_reserve) /                  *)
(* (input_reserve + input_with_fee), refused when it would drain the pool *)
swap_output(p, input_reserve, output_reserve, input_amount) ==
    LET with_fee == input_amount_with_fee(p.fee_rate, input_amount)
        numerator == with_fee * output_reserve
        denominator == input_reserve + with_fee
    IN
    IF denominator = 0 THEN Err("InsufficientLiquidity")
    ELSE
    LET output_amount == numerator \div denominator
    IN  IF output_amount >= output_reserve
        THEN Err("InsufficientLiquidity")
        ELSE Ok(output_amount)

(* A token that is no key of reserves read as a reserve of zero *)
constant_product_swap_missing_as_zero(p, input_token, output_token, input_amount) ==
    LET reserve(t) == IF t \in DOMAIN p.reserves THEN p.reserves[t] ELSE 0
    IN  IF reserve(input_token) = 0 \/ reserve(output_token) = 0
        THEN Err("InsufficientLiquidity")
        ELSE swap_output(p, reserve(input_token), reserve(output_token),
                         input_amount)

constant_product_swap(p, input_token, output_token, input_amount) ==
    IF input_token \notin DOMAIN p.reserves THEN Err("TokenNotFound")
    ELSE IF output_token \notin DOMAIN p.reserves THEN Err("TokenNotFound")
    ELSE
    LET input_reserve == p.reserves[input_token]
        output_reserve == p.reserves[output_token]
    IN  IF input_reserve = 0 \/ output_reserve = 0
        THEN Err("InsufficientLiquidity")
        ELSE swap_output(p, input_reserve, output_reserve, input_amount)

calculate_swap_output(p, input_token, output_token, input_amount) ==
    IF p.pool_type = "ConstantProduct"
    THEN constant_product_swap(p, input_token, output_token, input_amount)
    ELSE Err("UnsupportedPoolType")

----------------------------------------------------------------------------
(* The caller's settlement of a quote (spec 4.2, step 6): reserve_in +=      *)
(* amount_in, reserve_out -= amount_out.  The engine holds no code for it.   *)

apply_swap_deltas(p, input_token, output_token, amount_in, amount_out) ==
    LET r1 == [p.reserves EXCEPT ![input_token] = @ + amount_in]
        r2 == [r1 EXCEPT ![output_token] = @ - amount_out]
    IN  [p EXCEPT !.reserves = r2]

----------------------------------------------------------------------------
(* Pool::calculate_lp_tokens_to_mint and Pool::add_liquidity *)

None == [some |-> FALSE, v |-> 0]
Some(x) == [some |-> TRUE, v |-> x]

(* ratio.min(current_min) *)
Min(a, b) == IF a <= b THEN a ELSE b

(* The proportional branch: the loop over token_amounts, in iteration order *)
RECURSIVE MinRatioLoop(_, _, _, _)
MinRatioLoop(p, token_amounts, order, min_ratio) ==
    IF order = <<>>
    THEN IF min_ratio.some THEN Ok(min_ratio.v) ELSE Err("InsufficientLiquidity")
    ELSE
    LET token == Head(order)
        amount == token_amounts[token]
    IN
    IF token \notin DOMAIN p.reserves THEN Err("TokenNotFound")
    ELSE IF p.reserves[token] = 0 THEN Err("InsufficientLiquidity")
    ELSE
    LET ratio == (amount * p.total_supply) \div p.reserves[token]
    IN  MinRatioLoop(p, token_amounts, Tail(order),
                     IF min_ratio.some THEN Some(Min(ratio, min_ratio.v))
                     ELSE Some(ratio))

calculate_lp_tokens_to_mint(p, token_amounts, order) ==
    IF p.total_supply = 0
    THEN Ok(sqrt(Product(token_amounts)))
    ELSE MinRatioLoop(p, token_amounts, order, None)

(* The loop with an entry made for a token that is no key of reserves *)
RECURSIVE UpdateReservesInserting(_, _, _)
UpdateReservesInserting(reserves, token_amounts, order) ==
    IF order = <<>> THEN [reserves |-> reserves, found |-> TRUE]
    ELSE
    LET token == Head(order)
        present == IF token \in DOMAIN reserves THEN reserves[token] ELSE 0
    IN  UpdateReservesInserting(
            [t \in DOMAIN reserves \cup {token} |->
                IF t = token THEN present + token_amounts[token] ELSE reserves[t]],
            token_amounts, Tail(order))

(* The loop that updates the reserves: it stops at the first token that is *)
(* no key of reserves, after the updates it has already made.              *)
RECURSIVE UpdateReserves(_, _, _)
UpdateReserves(reserves, token_amounts, order) ==
    IF order = <<>> THEN [reserves |-> reserves, found |-> TRUE]
    ELSE
    LET token == Head(order)
    IN  IF token \notin DOMAIN reserves
        THEN [reserves |-> reserves, found |-> FALSE]
        ELSE UpdateReserves([reserves EXCEPT ![token] = @ + token_amounts[token]],
                            token_amounts, Tail(order))

(* The pool after the call and what the call returns *)
add_liquidity(p, token_amounts, order) ==
    LET lp_tokens == calculate_lp_tokens_to_mint(p, token_amounts, order)
    IN
    IF lp_tokens.tag = "Err" THEN [pool |-> p, ret |-> lp_tokens]
    ELSE
    LET upd == UpdateReserves(p.reserves, token_amounts, order)
    IN
    IF ~upd.found
    THEN [pool |-> [p EXCEPT !.reserves = upd.reserves],
          ret |-> Err("TokenNotFound")]
    ELSE [pool |-> [p EXCEPT !.reserves = upd.reserves,
                             !.total_supply = @ + lp_tokens.value],
          ret |-> lp_tokens]

----------------------------------------------------------------------------
(* Pool::update_dynamic_fee *)

(* u64::MAX as a residue modulo 2^64 *)
U64_MAX == -1

(* An f64 volatility is num / VolDen, or, when huge, num * 2^64: both are  *)
(* exact in binary floating point, and so is the product with 100.0.       *)
VolDen == 2 ^ 8

(* (volatility * 100.0) as u64: truncates, saturates at u64::MAX *)
volatility_factor(volatility) ==
    IF volatility.huge
    THEN IF volatility.num = 0 THEN 0 ELSE U64_MAX
    ELSE (volatility.num * 100) \div VolDen

(* u64 addition overflows when the true sum reaches 2^64 *)
Overflows(a, b) == (a < 0 \/ b < 0) /\ a + b >= 0

(* u64::min with 1000: a negative residue is a value near 2^64 *)
CapAt1000(x) == IF x < 0 \/ x > 1000 THEN 1000 ELSE x

(* overflow_checks: the build panics on u64 overflow (debug) or wraps *)
update_dynamic_fee(p, volume_24h, volatility, overflow_checks) ==
    LET base_fee == 300
        volume_factor == IF volume_24h > 1000000 THEN 50 ELSE 0
        factor == volatility_factor(volatility)
        sum == base_fee + volume_factor + factor
    IN
    IF Overflows(base_fee + volume_factor, factor) /\ overflow_checks
    THEN [pool |-> p, ret |-> Panic]
    ELSE [pool |-> [p EXCEPT !.fee_rate = CapAt1000(sum)], ret |-> Ok(0)]

----------------------------------------------------------------------------
(* Pool::stable_swap, Pool::calculate_d, Pool::calculate_y *)

(* The cap of the two Newton loops: for _ in 0..255 *)
NewtonCap == 255

(* let a = BigUint::from(100u64): the amplification parameter *)
Amplification == 100

(* a * n.pow(balances.len()) *)
Ann(balances) ==
    LET n == Len(balances)
    IN  Amplification * (IF n = 0 THEN 1 ELSE n ^ n)

RECURSIVE SumOf(_)
SumOf(balances) ==
    IF balances = <<>> THEN 0 ELSE Head(balances) + SumOf(Tail(balances))

(* The balances of self.tokens, in order; a token without a reserve reads 0 *)
BalancesOf(p) ==
    [i \in 1..Len(p.tokens) |->
        IF p.tokens[i] \in DOMAIN p.reserves THEN p.reserves[p.tokens[i]] ELSE 0]

(* The halting rule of both loops: the two iterates differ by at most 1 *)
WithinOne(a, b) == IF a > b THEN a - b <= 1 ELSE b - a <= 1

(* dp = (dp * d) / (n * balance), folded over the balances from the k-th on; *)
(* a division by zero panics                                                 *)
RECURSIVE DpFold(_, _, _, _)
DpFold(balances, k, dp, d) ==
    IF k > Len(balances) THEN Ok(dp)
    ELSE IF Len(balances) * balances[k] = 0 THEN Panic
    ELSE DpFold(balances, k + 1, (dp * d) \div (Len(balances) * balances[k]), d)

(* One iteration of calculate_d: the next d from the present one *)
DNext(balances, d) ==
    LET n == Len(balances)
        s == SumOf(balances)
        ann == Ann(balances)
        dp == DpFold(balances, 1, d, d)
    IN
    IF dp.tag = "Panic" THEN Panic
    ELSE
    LET denominator == (ann - 1) * d + (n + 1) * dp.value
    IN  IF denominator = 0 THEN Panic
        ELSE Ok(((ann * s + dp.value * n) * d) \div denominator)

(* The loop of calculate_d after i iterations: what it returns, how many *)
(* iterations it made and whether the halting rule ended it              *)
RECURSIVE DLoop(_, _, _)
DLoop(balances, d, i) ==
    IF i = NewtonCap
    THEN [ret |-> Ok(d), iterations |-> i, halted |-> FALSE]
    ELSE
    LET next == DNext(balances, d)
    IN  IF next.tag = "Panic"
        THEN [ret |-> Panic, iterations |-> i + 1, halted |-> FALSE]
        ELSE IF WithinOne(next.value, d)
        THEN [ret |-> next, iterations |-> i + 1, halted |-> TRUE]
        ELSE DLoop(balances, next.value, i + 1)

(* calculate_d with the count of its iterations *)
calculate_d_run(balances) ==
    LET s == SumOf(balances)
    IN  IF s = 0 THEN [ret |-> Ok(0), iterations |-> 0, halted |-> TRUE]
        ELSE DLoop(balances, s, 0)

calculate_d(balances) == calculate_d_run(balances).ret

(* The two folds of calculate_y over the balances other than token_index, *)
(* from the k-th on: s += balance; c = (c * d) / (n * balance)           *)
RECURSIVE CFold(_, _, _, _, _)
CFold(balances, token_index, k, c, d) ==
    IF k > Len(balances) THEN Ok(c)
    ELSE IF k = token_index THEN CFold(balances, token_index, k + 1, c, d)
    ELSE IF Len(balances) * balances[k] = 0 THEN Panic
    ELSE CFold(balances, token_index, k + 1,
               (c * d) \div (Len(balances) * balances[k]), d)

RECURSIVE SumOthers(_, _, _)
SumOthers(balances, token_index, k) ==
    IF k > Len(balances) THEN 0
    ELSE (IF k = token_index THEN 0 ELSE balances[k])
             + SumOthers(balances, token_index, k + 1)

(* One iteration of calculate_y: (y * y + c) / (y * 2 + b - d); the *)
(* subtraction panics below zero, the division at zero              *)
YNext(c, b, d, y) ==
    IF y * 2 + b - d <= 0 THEN Panic
    ELSE Ok((y * y + c) \div (y * 2 + b - d))

RECURSIVE YLoop(_, _, _, _, _)
YLoop(c, b, d, y, i) ==
    IF i = NewtonCap
    THEN [ret |-> Ok(y), iterations |-> i, halted |-> FALSE]
    ELSE
    LET next == YNext(c, b, d, y)
    IN  IF next.tag = "Panic"
        THEN [ret |-> Panic, iterations |-> i + 1, halted |-> FALSE]
        ELSE IF WithinOne(next.value, y)
        THEN [ret |-> next, iterations |-> i + 1, halted |-> TRUE]
        ELSE YLoop(c, b, d, next.value, i + 1)

(* The constants c and b of the loop of calculate_y *)
YCoefficients(balances, token_index, d) ==
    LET n == Len(balances)
        ann == Ann(balances)
        c1 == CFold(balances, token_index, 1, d, d)
    IN  IF c1.tag = "Panic" THEN Panic
        ELSE Ok([c |-> (c1.value * d) \div (ann * n),
                 b |-> SumOthers(balances, token_index, 1) + d \div ann])

calculate_y_run(balances, token_index, d) ==
    LET k == YCoefficients(balances, token_index, d)
    IN  IF k.tag = "Panic"
        THEN [ret |-> Panic, iterations |-> 0, halted |-> FALSE]
        ELSE YLoop(k.value.c, k.value.b, d, d, 0)

(* The first guess y = d, returned without an iteration *)
calculate_y_unsolved(balances, token_index, d) == Ok(d)

calculate_y(balances, token_index, d) ==
    calculate_y_run(balances, token_index, d).ret

(* self.tokens.iter().position(..).ok_or(TokenNotFound), counted from 1 *)
find_token_index(p, token_address) ==
    IF \E i \in 1..Len(p.tokens) : p.tokens[i] = token_address
    THEN Ok(CHOOSE i \in 1..Len(p.tokens) :
                /\ p.tokens[i] = token_address
                /\ \A j \in 1..(i - 1) : p.tokens[j] # token_address)
    ELSE Err("TokenNotFound")

(* output_amount - fee_amount, the fee being output_amount * fee_rate / 10000 *)
output_after_fee(p, output_amount) ==
    LET fee_amount == (output_amount * p.fee_rate) \div 10000
    IN  IF fee_amount > output_amount THEN Panic
        ELSE Ok(output_amount - fee_amount)

stable_swap(p, input_token, output_token, input_amount) ==
    LET balances == BalancesOf(p)
        d == calculate_d(balances)
    IN
    IF d.tag = "Panic" THEN Panic
    ELSE
    LET input_idx == find_token_index(p, input_token)
        output_idx == find_token_index(p, output_token)
    IN
    IF input_idx.tag = "Err" THEN input_idx
    ELSE IF output_idx.tag = "Err" THEN output_idx
    ELSE
    LET new_balances == [balances EXCEPT ![input_idx.value] = @ + input_amount]
        new_output_balance == calculate_y(new_balances, output_idx.value, d.value)
    IN
    IF new_output_balance.tag = "Panic" THEN Panic
    ELSE IF new_output_balance.value > balances[output_idx.value] THEN Panic
    ELSE output_after_fee(p, balances[output_idx.value] - new_output_balance.value)

----------------------------------------------------------------------------
(* The concentrated-liquidity swaps.  An f64 price is kept as the pair of *)
(* reserves it is the quotient of; a bound of a price range is an integer. *)

(* Pool::get_current_price: reserve_b / reserve_a *)
get_current_price(p, token_a, token_b) ==
    IF token_a \notin DOMAIN p.reserves THEN Err("TokenNotFound")
    ELSE IF token_b \notin DOMAIN p.reserves THEN Err("TokenNotFound")
    ELSE IF p.reserves[token_a] = 0 \/ p.reserves[token_b] = 0
    THEN Err("InsufficientLiquidity")
    ELSE Ok([num |-> p.reserves[token_b], den |-> p.reserves[token_a]])

(* current_price < price_range.0 || current_price > price_range.1 *)
PriceOutOfRange(price, price_range) ==
    \/ price.num < price_range[1] * price.den
    \/ price.num > price_range[2] * price.den

(* (1.0 / (price_range.1 - price_range.0)) as u64: the cast truncates, takes *)
(* a negative value to 0 and the infinity of an empty range to u64::MAX      *)
range_factor(price_range) ==
    LET width == price_range[2] - price_range[1]
    IN  IF width = 0 THEN U64_MAX
        ELSE IF width < 0 THEN 0
        ELSE 1 \div width

(* input_amount / liquidity, the liquidity being total_supply * range_factor; *)
(* the division panics at zero.  Under a factor of u64::MAX the quotient is   *)
(* 0 for every input_amount below 2^64 - 1.                                   *)
price_impact(input_amount, total_supply, factor) ==
    IF total_supply = 0 \/ factor = 0 THEN Panic
    ELSE IF factor = U64_MAX THEN Ok(0)
    ELSE Ok(input_amount \div (total_supply * factor))

(* Pool::calculate_output_from_liquidity: input_amount times             *)
(* (current_price * (1.0 + price_impact)) as u64; the f64 product of the *)
(* reserves drawn here truncates to the exact quotient                   *)
calculate_output_from_liquidity(input_amount, impact, current_price) ==
    LET new_price == (current_price.num * (1 + impact)) \div current_price.den
    IN  Ok(input_amount * new_price)

(* Pool::calculate_concentrated_liquidity_swap *)
calculate_concentrated_liquidity_swap(p, input_token, output_token, input_amount, price_range) ==
    LET current_price == get_current_price(p, input_token, output_token)
    IN
    IF current_price.tag = "Err" THEN current_price
    ELSE IF PriceOutOfRange(current_price.value, price_range)
    THEN Err("PriceOutOfRange")
    ELSE
    LET impact == price_impact(input_amount, p.total_supply,
                               range_factor(price_range))
    IN  IF impact.tag = "Panic" THEN Panic
        ELSE calculate_output_from_liquidity(input_amount, impact.value,
                                             current_price.value)

(* The price is the square of an integer: its f64 square root is exact *)
SquareOfInteger(price) ==
    \E k \in 1..price.num : k * k * price.den = price.num

(* Pool::concentrated_liquidity_swap.  The price moves from sqrt_price to    *)
(* sqrt_price + price_impact on the scale of 2^96 and back through f64: for  *)
(* a price_impact below 2^43 the new price is the square of the rounded      *)
(* root, and (1.0 / price_ratio) as u64 is 1 or 0 as that square rounds to   *)
(* at most the price or above it (rounds_up); it is 1 for the price 3 and 0  *)
(* for the price 2.                                                          *)
concentrated_liquidity_swap(p, input_token, output_token, input_amount, rounds_up) ==
    LET current_price == get_current_price(p, input_token, output_token)
    IN
    IF current_price.tag = "Err" THEN current_price
    ELSE IF p.total_supply = 0 THEN Panic
    ELSE
    LET inverse_ratio ==
            IF rounds_up /\ ~SquareOfInteger(current_price.value) THEN 0 ELSE 1
    IN  output_after_fee(p, input_amount * inverse_ratio)

(* Pool::calculate_multi_asset_swap *)
calculate_multi_asset_swap(p, input_token, output_token, input_amount, rounds_up) ==
    IF p.pool_type = "ConstantProduct"
    THEN constant_product_swap(p, input_token, output_token, input_amount)
    ELSE IF p.pool_type = "StableSwap"
    THEN stable_swap(p, input_token, output_token, input_amount)
    ELSE concentrated_liquidity_swap(p, input_token, output_token,
                                     input_amount, rounds_up)

----------------------------------------------------------------------------
(* The record of the last call *)

NoCall ==
    [op |-> "new", input_token |-> "-", output_token |-> "-",
     input_amount |-> 0, token_amounts |-> <<>>,
     volume_24h |-> 0, volatility |-> [num |-> 0, huge |-> FALSE], n |-> 0,
     price_range |-> <<0, 0>>]

(* The inputs the model draws *)
TokenAmounts ==
    UNION {[keys -> 0..MaxAmount] : keys \in SUBSET Addresses}

Volumes == {1000000, 1000001}

Volatilities ==
    {[num |-> m, huge |-> FALSE] : m \in {1, 3, 2560}}
        \cup {[num |-> 1, huge |-> TRUE]}

Idle == [NoCall EXCEPT !.op = "-"]

Init ==
    \E r \in [{ETH, USDC} -> 0..MaxInitReserve], f \in FeeRates, t \in PoolTypes :
        /\ pool = Pool_new("ETH-USDC", PoolTokens, r, f, t)
        /\ old = pool
        /\ call = NoCall
        /\ ret = NoResult
        /\ deposited = FALSE
        /\ newton = NoLoop
        /\ api = NoApi

(* No call is under way: the pool is constructed, or the caller has taken *)
(* the result of the last call.                                           *)
Ready == ret = NoResult

(* A quote: calculate_swap_output(&self, ...) on the pool as it stands *)
Quote ==
    \E tin \in Addresses, tout \in Addresses, a \in 0..MaxAmount :
        /\ Ready
        /\ call' = [NoCall EXCEPT !.op = "calculate_swap_output",
                                  !.input_token = tin, !.output_token = tout,
                                  !.input_amount = a]
        /\ ret' = calculate_swap_output(pool, tin, tout, a)
        /\ old' = pool
        /\ pool' = pool
        /\ UNCHANGED <<deposited, newton, api>>

(* A swap: the caller quotes and, on success, applies the reserve deltas *)
Swap ==
    \E tin \in Addresses, tout \in Addresses, a \in 0..MaxAmount :
        LET q == calculate_swap_output(pool, tin, tout, a)
        IN  /\ Ready
            /\ q.tag = "Ok"
            /\ pool.reserves[tin] + a <= MaxReserve
            /\ call' = [NoCall EXCEPT !.op = "swap",
                                      !.input_token = tin, !.output_token = tout,
                                      !.input_amount = a]
            /\ ret' = q
            /\ old' = pool
            /\ pool' = apply_swap_deltas(pool, tin, tout, a, q.value)
            /\ UNCHANGED <<deposited, newton, api>>

AddLiquidity ==
    \E ta \in TokenAmounts :
        \E order \in Orders(DOMAIN ta) :
            LET r == add_liquidity(pool, ta, order)
            IN  /\ Ready
                /\ \A t \in DOMAIN r.pool.reserves : r.pool.reserves[t] <= MaxReserve
                /\ r.pool.total_supply <= MaxSupply
                /\ call' = [NoCall EXCEPT !.op = "add_liquidity",
                                          !.token_amounts = ta]
                /\ ret' = r.ret
                /\ old' = pool
                /\ pool' = r.pool
                /\ deposited' = (deposited \/ r.ret.tag = "Ok")
                /\ UNCHANGED <<newton, api>>

UpdateDynamicFee ==
    \E v \in Volumes, x \in Volatilities, overflow_checks \in BOOLEAN :
        LET r == update_dynamic_fee(pool, v, x, overflow_checks)
        IN  /\ Ready
            /\ call' = [NoCall EXCEPT !.op = "update_dynamic_fee",
                                      !.volume_24h = v, !.volatility = x]
            /\ ret' = r.ret
            /\ old' = pool
            /\ pool' = r.pool
            /\ UNCHANGED <<deposited, newton, api>>

(* The inputs of the swap entry points *)
SwapAmounts == (0..MaxAmount) \cup {100}

MultiAssetSwap ==
    \E tin \in Addresses, tout \in Addresses, a \in SwapAmounts,
       rounds_up \in BOOLEAN :
        /\ Ready
        /\ call' = [NoCall EXCEPT !.op = "calculate_multi_asset_swap",
                                  !.input_token = tin, !.output_token = tout,
                                  !.input_amount = a]
        /\ ret' = calculate_multi_asset_swap(pool, tin, tout, a, rounds_up)
        /\ old' = pool
        /\ pool' = pool
        /\ UNCHANGED <<deposited, newton, api>>

(* The caller takes the result; the pool is ready for the next call *)
Resume ==
    /\ ~Ready
    /\ call' = Idle
    /\ ret' = NoResult
    /\ old' = pool
    /\ pool' = pool
    /\ UNCHANGED <<deposited, newton, api>>

Next ==
    \/ Quote
    \/ MultiAssetSwap
    \/ Swap
    \/ AddLiquidity
    \/ UpdateDynamicFee
    \/ Resume

Spec == Init /\ [][Next]_vars

----------------------------------------------------------------------------
(* The swap entry points on their own, on pools as Pool::new makes them *)

MaxBalance == 20

ThreeTokens == <<ETH, USDC, DAI>>

(* The reserves of a two-token pool: small ones and a lopsided one *)
SwapReserves == (0..MaxInitReserve) \cup {414}

(* The balance of every token of a balanced pool *)
BalancedReserves(tokens) ==
    IF Len(tokens) = 2 THEN (1..MaxBalance) \cup {1000} ELSE 1..MaxBalance

(* (min_price, max_price): a unit range, a wide one, an empty one at the *)
(* price 1, and one whose bounds are exchanged                           *)
PriceRanges == {<<0, 1>>, <<0, 4>>, <<1, 1>>, <<1, 2>>, <<2, 1>>}

InitSwap ==
    \E f \in FeeRates, t \in PoolTypes :
        /\ \/ \E r \in [{ETH, USDC} -> SwapReserves] :
                  pool = Pool_new("ETH-USDC", PoolTokens, r, f, t)
           \/ \E tokens \in {PoolTokens, ThreeTokens} :
                  \E b \in BalancedReserves(tokens) :
                      pool = Pool_new("balanced", tokens,
                                      [a \in {tokens[i] : i \in 1..Len(tokens)} |-> b],
                                      f, t)
        /\ old = pool
        /\ call = NoCall
        /\ ret = NoResult
        /\ deposited = FALSE
        /\ newton = NoLoop
        /\ api = NoApi

ConcentratedLiquiditySwap ==
    \E tin \in Addresses, tout \in Addresses, a \in SwapAmounts,
       range \in PriceRanges :
        /\ Ready
        /\ call' = [NoCall EXCEPT !.op = "calculate_concentrated_liquidity_swap",
                                  !.input_token = tin, !.output_token = tout,
                                  !.input_amount = a, !.price_range = range]
        /\ ret' = calculate_concentrated_liquidity_swap(pool, tin, tout, a, range)
        /\ old' = pool
        /\ pool' = pool
        /\ UNCHANGED <<deposited, newton, api>>

NextSwap ==
    \/ MultiAssetSwap
    \/ ConcentratedLiquiditySwap
    \/ Resume

SpecSwap == InitSwap /\ [][NextSwap]_vars

----------------------------------------------------------------------------
(* The square root on its own: every argument up to MaxSqrtArg *)

InitSqrt ==
    /\ pool = Pool_new("ETH-USDC", PoolTokens, [t \in {ETH, USDC} |-> 0], 300,
                       "ConstantProduct")
    /\ old = pool
    /\ call = NoCall
    /\ ret = NoResult
    /\ deposited = FALSE
    /\ newton = NoLoop
    /\ api = NoApi

Sqrt ==
    \E n \in 0..MaxSqrtArg :
        /\ call' = [NoCall EXCEPT !.op = "sqrt", !.n = n]
        /\ ret' = Ok(sqrt(n))
        /\ old' = pool
        /\ pool' = pool
        /\ UNCHANGED <<deposited, newton, api>>

NextSqrt == Sqrt

SpecSqrt == InitSqrt /\ [][NextSqrt]_vars

----------------------------------------------------------------------------
(* The three loops, one iteration at a time *)

(* The body of the loop of sqrt without x = y *)
SqrtStepKeepingX(n, x, y) == [x |-> x, y |-> (y + n \div y) \div 2]

(* x = y.clone(); y = (&x + n / &x) / 2 *)
SqrtStep(n, x, y) == [x |-> y, y |-> (y + n \div y) \div 2]

(* The balances the loops are run on: those of the two-token pools and of *)
(* the balanced three-token pools                                         *)
LoopBalances ==
    {<<a, b>> : a \in SwapReserves, b \in SwapReserves}
        \cup {<<b, b, b>> : b \in 1..MaxBalance}

(* sqrt(n) at the head of its loop: x = n, y = (n + 1) / 2 *)
SqrtStart(n) ==
    [NoLoop EXCEPT !.fn = "sqrt", !.n = n, !.prev = n,
                   !.cur = IF n = 0 THEN 0 ELSE (n + 1) \div 2,
                   !.pc = IF n = 0 THEN "done" ELSE "loop"]

(* calculate_d(balances) at the head of its loop: d = s *)
DStart(balances) ==
    [NoLoop EXCEPT !.fn = "calculate_d", !.balances = balances,
                   !.cur = SumOf(balances), !.prev = SumOf(balances),
                   !.pc = IF SumOf(balances) = 0 THEN "done" ELSE "loop"]

(* calculate_y(balances, token_index, d) at the head of its loop: y = d *)
YStart(balances, token_index, d) ==
    LET k == YCoefficients(balances, token_index, d)
    IN  IF k.tag = "Panic"
        THEN [NoLoop EXCEPT !.fn = "calculate_y", !.balances = balances,
                            !.d = d, !.pc = "panic"]
        ELSE [NoLoop EXCEPT !.fn = "calculate_y", !.balances = balances,
                            !.d = d, !.c = k.value.c, !.b = k.value.b,
                            !.cur = d, !.prev = d, !.pc = "loop"]

InitNewton ==
    /\ pool = Pool_new("ETH-USDC", PoolTokens, [t \in {ETH, USDC} |-> 0], 300,
                       "StableSwap")
    /\ old = pool
    /\ call = NoCall
    /\ ret = NoResult
    /\ deposited = FALSE
    /\ api = NoApi
    /\ \/ \E n \in 0..MaxSqrtArg : newton = SqrtStart(n)
       \/ \E balances \in LoopBalances : newton = DStart(balances)
       \/ \E balances \in LoopBalances :
              \E input_idx \in 1..Len(balances), output_idx \in 1..Len(balances),
                 a \in SwapAmounts :
                  /\ calculate_d(balances).tag = "Ok"
                  /\ newton = YStart([balances EXCEPT ![input_idx] = @ + a],
                                     output_idx, calculate_d(balances).value)

(* while y < x { .. } *)
SqrtIterate ==
    /\ newton.fn = "sqrt" /\ newton.pc = "loop"
    /\ newton' =
           IF newton.cur < newton.prev
           THEN LET step == SqrtStep(newton.n, newton.prev, newton.cur)
                IN  [newton EXCEPT !.prev = step.x, !.cur = step.y]
           ELSE [newton EXCEPT !.pc = "done"]
    /\ UNCHANGED <<pool, old, call, ret, deposited, api>>

(* The loop after an iteration that made next of the iterate cur: the *)
(* halting rule or the cap ends it                                     *)
AfterIteration(next) ==
    IF next.tag = "Panic"
    THEN [newton EXCEPT !.i = @ + 1, !.pc = "panic"]
    ELSE [newton EXCEPT !.prev = newton.cur, !.cur = next.value, !.i = @ + 1,
                        !.pc = IF \/ WithinOne(next.value, newton.cur)
                                  \/ newton.i + 1 = NewtonCap
                               THEN "done" ELSE "loop"]

(* One iteration of for _ in 0..255 { .. } in calculate_d *)
DIterate ==
    /\ newton.fn = "calculate_d" /\ newton.pc = "loop"
    /\ newton' = AfterIteration(DNext(newton.balances, newton.cur))
    /\ UNCHANGED <<pool, old, call, ret, deposited, api>>

(* One iteration of for _ in 0..255 { .. } in calculate_y *)
YIterate ==
    /\ newton.fn = "calculate_y" /\ newton.pc = "loop"
    /\ newton' = AfterIteration(YNext(newton.c, newton.b, newton.d, newton.cur))
    /\ UNCHANGED <<pool, old, call, ret, deposited, api>>

NextNewton ==
    \/ SqrtIterate
    \/ DIterate
    \/ YIterate

(* A loop under way goes on: the computation is synchronous *)
SpecNewton == InitNewton /\ [][NextNewton]_vars /\ WF_vars(NextNewton)

----------------------------------------------------------------------------
(* The API layer: the requests served at once on the pool store, an       *)
(* Arc<RwLock<HashMap<String, Pool>>> that holds the one sample pool.  A   *)
(* deposit is taken one assignment at a time, as add_liquidity makes them. *)
(* call, old and ret hold the reply of the step just taken, if it sent one *)

NumRequests == 2

Requests == 1..NumRequests

PoolIds == {"ETH-USDC", "DAI-USDC"}

NoRequest ==
    [pc |-> "idle", pool_id |-> "-", token_amounts |-> <<>>, order |-> <<>>,
     rest |-> <<>>, lp |-> 0, base |-> "-", result |-> NoResult]

(* A read guard that is granted beside a write guard *)
CanReadBesideWriter(lock) == TRUE

(* pools.read().await is granted while no write guard is held *)
CanRead(lock) == lock.writer = 0

(* pools.write().await is granted while no guard at all is held *)
CanWrite(lock) == lock.writer = 0 /\ lock.readers = {}

(* What handle_quote replies: the quote, or a rejection when no pool holds *)
(* both tokens or the quote fails                                          *)
handle_quote(p, input_token, output_token, input_amount) ==
    IF ~(\E i \in 1..Len(p.tokens) : p.tokens[i] = input_token)
           \/ ~(\E i \in 1..Len(p.tokens) : p.tokens[i] = output_token)
    THEN Err("Rejected")
    ELSE LET q == calculate_swap_output(p, input_token, output_token, input_amount)
         IN  IF q.tag = "Ok" THEN q ELSE Err("Rejected")

(* What handle_add_liquidity makes of the pool, and what it replies: a *)
(* rejection when the store has no such pool or the deposit fails      *)
handle_add_liquidity(p, pool_id, token_amounts, order) ==
    IF pool_id # p.id
    THEN [pool |-> p, ret |-> Err("Rejected")]
    ELSE LET r == add_liquidity(p, token_amounts, order)
         IN  [pool |-> r.pool,
              ret |-> IF r.ret.tag = "Ok" THEN r.ret ELSE Err("Rejected")]

(* initialize_sample_pools: one ConstantProduct pool of two tokens with *)
(* positive reserves and a fee of 300                                   *)
InitApi ==
    /\ \E r \in [{ETH, USDC} -> 1..MaxInitReserve] :
           pool = Pool_new("ETH-USDC", PoolTokens, r, 300, "ConstantProduct")
    /\ old = pool
    /\ call = NoCall
    /\ ret = NoResult
    /\ deposited = FALSE
    /\ newton = NoLoop
    /\ api = [writer |-> 0, readers |-> {}, committed |-> pool,
              req |-> [r \in Requests |-> NoRequest]]

NoReply == call' = NoCall /\ old' = pool' /\ ret' = NoResult

(* handle_quote: let pools_read = pools.read().await *)
AcquireRead ==
    \E r \in Requests :
        /\ api.req[r].pc = "idle"
        /\ CanRead(api)
        /\ api' = [api EXCEPT !.readers = @ \cup {r},
                              !.req[r] = [NoRequest EXCEPT !.pc = "quote_locked"]]
        /\ pool' = pool
        /\ NoReply
        /\ UNCHANGED <<deposited, newton>>

(* handle_quote: the pool is found, calculate_swap_output is called, the *)
(* reply is made and the read guard is dropped                           *)
ReplyQuote ==
    \E r \in Requests, tin \in Addresses, tout \in Addresses, a \in 0..MaxAmount :
        /\ api.req[r].pc = "quote_locked"
        /\ call' = [NoCall EXCEPT !.op = "handle_quote", !.input_token = tin,
                                  !.output_token = tout, !.input_amount = a]
        /\ old' = pool
        /\ ret' = handle_quote(pool, tin, tout, a)
        /\ api' = [api EXCEPT !.readers = @ \ {r}, !.req[r] = NoRequest]
        /\ UNCHANGED <<pool, deposited, newton>>

(* handle_add_liquidity: let mut pools_write = pools.write().await *)
AcquireWrite ==
    \E r \in Requests :
        /\ api.req[r].pc = "idle"
        /\ CanWrite(api)
        /\ api' = [api EXCEPT !.writer = r,
                              !.req[r] = [NoRequest EXCEPT
                                  !.pc = "deposit_locked", !.base = pool]]
        /\ pool' = pool
        /\ NoReply
        /\ UNCHANGED <<deposited, newton>>

(* handle_add_liquidity: pools_write.get_mut(&request.pool_id), and in *)
(* add_liquidity: let lp_tokens = self.calculate_lp_tokens_to_mint(..)? *)
CalculateLp ==
    \E r \in Requests, id \in PoolIds, ta \in TokenAmounts :
        \E order \in Orders(DOMAIN ta) :
            LET q == [api.req[r] EXCEPT !.pool_id = id, !.token_amounts = ta,
                                        !.order = order]
                lp_tokens == calculate_lp_tokens_to_mint(pool, ta, order)
                after == add_liquidity(pool, ta, order).pool
            IN  /\ api.req[r].pc = "deposit_locked"
                /\ \A t \in DOMAIN after.reserves : after.reserves[t] <= MaxReserve
                /\ after.total_supply <= MaxSupply
                /\ api' = IF id = pool.id /\ lp_tokens.tag = "Ok"
                          THEN [api EXCEPT !.req[r] = [q EXCEPT
                                    !.pc = "deposit_updating",
                                    !.lp = lp_tokens.value, !.rest = order]]
                          ELSE [api EXCEPT !.req[r] = [q EXCEPT
                                    !.pc = "deposit_done",
                                    !.result = Err("Rejected")]]
                /\ pool' = pool
                /\ NoReply
                /\ UNCHANGED <<deposited, newton>>

(* add_liquidity: one pass of the loop over token_amounts *)
UpdateReserve ==
    \E r \in Requests :
        LET q == api.req[r]
            token == Head(q.rest)
        IN  /\ q.pc = "deposit_updating"
            /\ q.rest # <<>>
            /\ IF token \in DOMAIN pool.reserves
               THEN /\ pool' = [pool EXCEPT
                            !.reserves[token] = @ + q.token_amounts[token]]
                    /\ api' = [api EXCEPT !.req[r].rest = Tail(q.rest)]
               ELSE /\ pool' = pool
                    /\ api' = [api EXCEPT !.req[r].pc = "deposit_done",
                                          !.req[r].result = Err("Rejected")]
            /\ NoReply
            /\ UNCHANGED <<deposited, newton>>

(* add_liquidity: self.total_supply += &lp_tokens; Ok(lp_tokens) *)
MintLpTokens ==
    \E r \in Requests :
        LET q == api.req[r]
        IN  /\ q.pc = "deposit_updating"
            /\ q.rest = <<>>
            /\ pool' = [pool EXCEPT !.total_supply = @ + q.lp]
            /\ api' = [api EXCEPT !.req[r].pc = "deposit_done",
                                  !.req[r].result = Ok(q.lp)]
            /\ NoReply
            /\ UNCHANGED <<deposited, newton>>

(* handle_add_liquidity replies and returns: the write guard is dropped *)
ReplyAddLiquidity ==
    \E r \in Requests :
        LET q == api.req[r]
        IN  /\ q.pc = "deposit_done"
            /\ call' = [NoCall EXCEPT !.op = "handle_add_liquidity",
                                      !.token_amounts = q.token_amounts,
                                      !.order = q.order]
            /\ old' = q.base
            /\ ret' = q.result
            /\ api' = [api EXCEPT !.writer = 0, !.committed = pool,
                                  !.req[r] = NoRequest]
            /\ UNCHANGED <<pool, deposited, newton>>

NextApi ==
    \/ AcquireRead
    \/ ReplyQuote
    \/ AcquireWrite
    \/ CalculateLp
    \/ UpdateReserve
    \/ MintLpTokens
    \/ ReplyAddLiquidity

SpecApi == InitApi /\ [][NextApi]_vars

----------------------------------------------------------------------------
(* What the properties speak of *)

(* r is the largest integer whose square is at most n *)
IsIntegerSqrt(r, n) == r * r <= n /\ n < (r + 1) * (r + 1)

Keys == DOMAIN old.reserves

IsQuote == call.op = "calculate_swap_output"
IsSwap == call.op = "swap"
IsDeposit == call.op = "add_liquidity"
IsFeeUpdate == call.op = "update_dynamic_fee"

(* A constant-product quote on a pool with both reserves positive and an *)
(* amount_in > 0                                                         *)
ValidQuote ==
    /\ IsQuote
    /\ old.pool_type = "ConstantProduct"
    /\ call.input_token \in Keys /\ call.output_token \in Keys
    /\ \A t \in Keys : old.reserves[t] > 0
    /\ old.fee_rate \in 0..10000
    /\ call.input_amount > 0

(* amount_in net of the fee, as the spec writes it *)
AmountInNet == (call.input_amount * (10000 - old.fee_rate)) \div 10000

----------------------------------------------------------------------------
(* C1, as stated: every constant-product quote on a pool with positive     *)
(* reserves, a fee_rate in [0, 10000] and amount_in > 0 succeeds with      *)
(* 0 < amount_out < reserve_out (here from one token into the other).      *)
C1_OutputPositiveBelowReserve ==
    (ValidQuote /\ call.input_token # call.output_token) =>
        /\ ret.tag = "Ok"
        /\ 0 < ret.value
        /\ ret.value < old.reserves[call.output_token]

(* C1, amended: such a quote succeeds with 0 <= amount_out < reserve_out,  *)
(* and amount_out is positive exactly when amount_in_net * reserve_out >=  *)
(* reserve_in + amount_in_net (integer division yields 0 below that).      *)
C1_OutputBelowReserve ==
    ValidQuote =>
        /\ ret.tag = "Ok"
        /\ 0 <= ret.value
        /\ ret.value < old.reserves[call.output_token]
        /\ ret.value > 0 <=>
               AmountInNet * old.reserves[call.output_token]
                   >= old.reserves[call.input_token] + AmountInNet

(* C1, witness: a valid quote that pays out a positive amount *)
C1_Witness ==
    /\ ValidQuote /\ call.input_token # call.output_token
    /\ old.fee_rate > 0
    /\ ret.tag = "Ok" /\ ret.value > 0

----------------------------------------------------------------------------
(* C2: a successful constant-product swap with amount_in > 0 never lowers  *)
(* the reserve product: (reserve_in + amount_in) * (reserve_out -          *)
(* amount_out) >= reserve_in * reserve_out, strictly when fee_rate > 0;    *)
(* the deltas are what the pool holds afterwards, and no call of any       *)
(* sequence lowers the product of the reserves.                            *)
C2_ProductNeverDecreases ==
    /\ Product(pool.reserves) >= Product(old.reserves)
    /\ (IsSwap /\ call.input_amount > 0) =>
        LET reserve_in == old.reserves[call.input_token]
            reserve_out == old.reserves[call.output_token]
            after == (reserve_in + call.input_amount) * (reserve_out - ret.value)
        IN  /\ ret.tag = "Ok"
            /\ ret.value <= reserve_out
            /\ after >= reserve_in * reserve_out
            /\ old.fee_rate > 0 => after > reserve_in * reserve_out
            /\ call.input_token # call.output_token =>
                   /\ pool.reserves[call.input_token]
                          = reserve_in + call.input_amount
                   /\ pool.reserves[call.output_token] = reserve_out - ret.value

(* C2, witness: a swap under a positive fee that paid out *)
C2_Witness ==
    /\ IsSwap /\ call.input_amount > 0 /\ old.fee_rate > 0 /\ ret.value > 0
    /\ call.input_token # call.output_token

----------------------------------------------------------------------------
(* C3: add_liquidity is atomic: when it returns an error, every reserve    *)
(* and total_supply are what they were before the call.                    *)
C3_FailedDepositChangesNothing ==
    (IsDeposit /\ ret.tag = "Err") =>
        /\ pool.reserves = old.reserves
        /\ pool.total_supply = old.total_supply

----------------------------------------------------------------------------
(* C4: when total_supply is 0, add_liquidity rejects with TokenNotFound    *)
(* every token_amounts that omits a token the pool tracks (the empty map   *)
(* included), and changes nothing.                                         *)
C4_BootstrapNeedsEveryToken ==
    (/\ IsDeposit
     /\ old.total_supply = 0
     /\ \E t \in Keys : t \notin DOMAIN call.token_amounts) =>
        /\ ret = Err("TokenNotFound")
        /\ pool = old

----------------------------------------------------------------------------
(* C5: a deposit into a pool with total_supply > 0 *)

Deposited == DOMAIN call.token_amounts

Ratio(t) == (call.token_amounts[t] * old.total_supply) \div old.reserves[t]

MinimumRatio ==
    CHOOSE m \in {Ratio(t) : t \in Deposited} :
        \A t \in Deposited : m <= Ratio(t)

(* The proportional mint: with every deposited token a key of reserves    *)
(* holding a positive reserve, the call mints the minimum ratio, each     *)
(* deposited reserve grows by its amount and total_supply by the mint.    *)
ProportionalMint ==
    (/\ Deposited # {}
     /\ Deposited \subseteq Keys
     /\ \A t \in Deposited : old.reserves[t] > 0) =>
        /\ ret = Ok(MinimumRatio)
        /\ \A t \in Keys :
               pool.reserves[t] = old.reserves[t]
                   + (IF t \in Deposited THEN call.token_amounts[t] ELSE 0)
        /\ pool.total_supply = old.total_supply + ret.value

ZeroReserveReferenced == \E t \in Deposited \cap Keys : old.reserves[t] = 0

(* C5, as stated: with total_supply > 0 the call mints the minimum over    *)
(* the deposited tokens of floor(amount * total_supply / reserve), and     *)
(* fails with InsufficientLiquidity if a referenced reserve is zero or     *)
(* token_amounts is empty.                                                 *)
C5_MinRatioOrInsufficientLiquidity ==
    (IsDeposit /\ old.total_supply > 0) =>
        /\ ProportionalMint
        /\ (ZeroReserveReferenced \/ Deposited = {}) =>
               ret = Err("InsufficientLiquidity")

(* C5, what the code does keep: the same, but a zero reserve yields        *)
(* InsufficientLiquidity for certain only when every named token is a key  *)
(* of reserves; when an unknown token is named too, the call fails with    *)
(* TokenNotFound or with InsufficientLiquidity, whichever token the map's  *)
(* iteration meets first.                                                  *)
C5_MinRatioOrTypedFailure ==
    (IsDeposit /\ old.total_supply > 0) =>
        /\ ProportionalMint
        /\ Deposited = {} => ret = Err("InsufficientLiquidity")
        /\ (ZeroReserveReferenced /\ Deposited \subseteq Keys) =>
               ret = Err("InsufficientLiquidity")
        /\ ZeroReserveReferenced =>
               ret \in {Err("InsufficientLiquidity"), Err("TokenNotFound")}
        /\ ret.tag = "Err" => pool = old

(* C5, witness: a deposit of both tokens that minted shares *)
C5_Witness ==
    /\ IsDeposit /\ old.total_supply > 0
    /\ Deposited = Keys
    /\ ret.tag = "Ok" /\ ret.value > 0

----------------------------------------------------------------------------
(* C6: the initial mint is the integer square root of the product:         *)
(* Pool::new sets total_supply to it for ConstantProduct and to 0 for the  *)
(* other pool types; a successful deposit into a pool with total_supply 0  *)
(* returns the integer square root of the product of the amounts, and      *)
(* total_supply is then exactly that.                                      *)
C6_InitialMintIsSqrtOfProduct ==
    /\ call.op = "new" =>
        IF pool.pool_type = "ConstantProduct"
        THEN IsIntegerSqrt(pool.total_supply,
                           pool.reserves[ETH] * pool.reserves[USDC])
        ELSE pool.total_supply = 0
    /\ (IsDeposit /\ old.total_supply = 0 /\ ret.tag = "Ok") =>
        /\ IsIntegerSqrt(ret.value, Product(call.token_amounts))
        /\ pool.total_supply = ret.value

(* C6, witness: a bootstrap deposit that minted shares *)
C6_Witness ==
    /\ IsDeposit /\ old.total_supply = 0
    /\ ret.tag = "Ok" /\ ret.value > 1
    /\ pool.total_supply = ret.value

----------------------------------------------------------------------------
(* C7: total_supply is zero if and only if no liquidity has ever been      *)
(* deposited (every reserve is still zero and no add_liquidity call has    *)
(* succeeded), and once positive it never decreases.                       *)
C7_SupplyZeroIffNothingDeposited ==
    /\ pool.total_supply = 0 <=>
           (~deposited /\ \A t \in DOMAIN pool.reserves : pool.reserves[t] = 0)
    /\ old.total_supply > 0 => pool.total_supply >= old.total_supply

----------------------------------------------------------------------------
(* C8 *)

(* volatility > 0 and volatility >= 0.01, on the f64 as modelled *)
VolatilityPositive == call.volatility.num > 0
VolatilityAtLeastOneHundredth ==
    call.volatility.huge \/ call.volatility.num * 100 >= VolDen

(* C8, as stated: after update_dynamic_fee, fee_rate <= 1000, and          *)
(* fee_rate > 300 whenever volume_24h > 1_000_000 or volatility > 0.       *)
C8_FeeAboveBaseBelowCap ==
    (IsFeeUpdate /\ ret.tag = "Ok") =>
        /\ pool.fee_rate <= 1000
        /\ (call.volume_24h > 1000000 \/ VolatilityPositive) =>
               pool.fee_rate > 300

(* C8, what the code does keep: after update_dynamic_fee returns,          *)
(* fee_rate <= 1000, and fee_rate > 300 whenever volume_24h > 1_000_000 or *)
(* 0.01 <= volatility with volatility * 100 < 2^64.  The factor is         *)
(* volatility * 100 truncated, so below 0.01 it adds nothing: the fee is   *)
(* 300 + the volume factor.  From 2^64 on it saturates at u64::MAX and the *)
(* sum overflows: the call panics, changing nothing, or wraps to 299 + the *)
(* volume factor.                                                          *)
C8_FeeCappedAndRaised ==
    IsFeeUpdate =>
        LET volume_factor == IF call.volume_24h > 1000000 THEN 50 ELSE 0
        IN  /\ ret.tag \in {"Ok", "Panic"}
            /\ ret.tag = "Panic" => (call.volatility.huge /\ pool = old)
            /\ ret.tag = "Ok" =>
                /\ pool.fee_rate \in 0..1000
                /\ (\/ call.volume_24h > 1000000
                    \/ VolatilityAtLeastOneHundredth /\ ~call.volatility.huge) =>
                       pool.fee_rate > 300
                /\ ~VolatilityAtLeastOneHundredth =>
                       pool.fee_rate = 300 + volume_factor
                /\ call.volatility.huge => pool.fee_rate = 299 + volume_factor

(* C8, witness: a volatility of 0.01 or more raised the fee under a low volume *)
C8_Witness ==
    /\ IsFeeUpdate /\ ret.tag = "Ok"
    /\ call.volume_24h <= 1000000
    /\ VolatilityAtLeastOneHundredth /\ ~call.volatility.huge
    /\ pool.fee_rate > 300 /\ pool.fee_rate < 1000

----------------------------------------------------------------------------
(* C9: sqrt(n) is the largest integer r with r * r <= n: sqrt(0) = 0,      *)
(* sqrt(k * k) = k, and sqrt(n)^2 <= n < (sqrt(n) + 1)^2.                  *)
C9_SqrtIsIntegerSqrt ==
    call.op = "sqrt" =>
        /\ ret.tag = "Ok"
        /\ IsIntegerSqrt(ret.value, call.n)
        /\ call.n = 0 => ret.value = 0
        /\ \A k \in 0..call.n : k * k = call.n => ret.value = k

(* C9, witness: the root of a number that is no perfect square *)
C9_Witness ==
    /\ call.op = "sqrt" /\ call.n > 2
    /\ ret.value * ret.value < call.n

----------------------------------------------------------------------------
(* C10: the constant-product swap fails with TokenNotFound if token_in or  *)
(* token_out is no key of reserves, whatever the reserves, and otherwise   *)
(* with InsufficientLiquidity if either reserve is zero, for every         *)
(* amount_in, 0 included.                                                  *)
C10_TokenNotFoundThenInsufficientLiquidity ==
    (IsQuote /\ old.pool_type = "ConstantProduct") =>
        IF call.input_token \notin Keys \/ call.output_token \notin Keys
        THEN ret = Err("TokenNotFound")
        ELSE (\/ old.reserves[call.input_token] = 0
              \/ old.reserves[call.output_token] = 0) =>
                 ret = Err("InsufficientLiquidity")

(* C10, witness: an unknown token_out beside a zero reserve_in, amount_in 0 *)
C10_Witness ==
    /\ IsQuote /\ old.pool_type = "ConstantProduct"
    /\ call.input_token \in Keys /\ old.reserves[call.input_token] = 0
    /\ call.output_token \notin Keys
    /\ call.input_amount = 0
    /\ ret = Err("TokenNotFound")

----------------------------------------------------------------------------
(* C11: a constant-product swap never pays better than the spot price:     *)
(* every successful quote or swap with amount_in > 0 has                   *)
(* amount_out * reserve_in < amount_in * reserve_out, whatever the         *)
(* fee_rate in [0, 10000].                                                 *)
C11_NeverBetterThanSpotPrice ==
    ((IsQuote \/ IsSwap) /\ ret.tag = "Ok" /\ call.input_amount > 0) =>
        /\ old.pool_type = "ConstantProduct"
        /\ old.fee_rate \in 0..10000
        /\ ret.value * old.reserves[call.input_token]
               < call.input_amount * old.reserves[call.output_token]

(* C11, witness: a fee-free quote that paid out, between two tokens whose *)
(* reserves differ                                                        *)
C11_Witness ==
    /\ IsQuote /\ ret.tag = "Ok" /\ ret.value > 0
    /\ old.fee_rate = 0
    /\ call.input_token # call.output_token
    /\ old.reserves[call.input_token] # old.reserves[call.output_token]

----------------------------------------------------------------------------
IsMultiAssetSwap == call.op = "calculate_multi_asset_swap"

(* The tokens of the pool, as a set *)
TokenSet(p) == {p.tokens[i] : i \in 1..Len(p.tokens)}

(* Every balance of the pool is the same positive number *)
Balanced(p) ==
    \A t \in DOMAIN p.reserves :
        p.reserves[t] > 0 /\ \A u \in DOMAIN p.reserves : p.reserves[u] = p.reserves[t]

(* A swap between two assets of a balanced stable-swap pool with no fee, of *)
(* an amount_in that is positive and at most a tenth of a balance            *)
BalancedStableSwap ==
    /\ IsMultiAssetSwap
    /\ old.pool_type = "StableSwap" /\ old.fee_rate = 0
    /\ Balanced(old)
    /\ call.input_token \in TokenSet(old) /\ call.output_token \in TokenSet(old)
    /\ call.input_token # call.output_token
    /\ call.input_amount > 0
    /\ call.input_amount * 10 <= old.reserves[call.input_token]

(* C12: on a balanced stable-swap pool with fee_rate 0, calculate_d meets    *)
(* its halting rule within the 255 iterations and returns the sum of the     *)
(* balances, and a swap of 0 < amount_in <= a tenth of a balance between two *)
(* of the assets returns amount_out within 1% of amount_in plus one unit.    *)
C12_BalancedSwapNearOneToOne ==
    BalancedStableSwap =>
        LET run == calculate_d_run(BalancesOf(old))
            a == call.input_amount
            difference == IF ret.value > a THEN ret.value - a ELSE a - ret.value
        IN  /\ run.halted
            /\ run.iterations <= NewtonCap
            /\ run.ret = Ok(SumOf(BalancesOf(old)))
            /\ ret.tag = "Ok"
            /\ difference * 100 <= a + 100

(* C12, witness: a swap of 100 against balances of 1000 was paid out *)
C12_Witness ==
    /\ BalancedStableSwap
    /\ call.input_amount = 100
    /\ ret.tag = "Ok" /\ ret.value > 0

----------------------------------------------------------------------------
IsStableSwap == IsMultiAssetSwap /\ old.pool_type = "StableSwap"

(* Both tokens are tokens of the pool, D and the new output balance are *)
(* solved, and the new output balance is above the old one              *)
NewOutputBalanceExceedsOld ==
    LET balances == BalancesOf(old)
        d == calculate_d(balances)
        input_idx == find_token_index(old, call.input_token)
        output_idx == find_token_index(old, call.output_token)
    IN  /\ d.tag = "Ok" /\ input_idx.tag = "Ok" /\ output_idx.tag = "Ok"
        /\ LET new_balances ==
                   [balances EXCEPT ![input_idx.value] = @ + call.input_amount]
               y == calculate_y(new_balances, output_idx.value, d.value)
           IN  y.tag = "Ok" /\ y.value > balances[output_idx.value]

(* C13: the stable-swap fails with TokenNotFound whenever token_in or       *)
(* token_out is no token of the pool, and with InsufficientLiquidity        *)
(* whenever the solved new output balance exceeds the old output balance.   *)
C13_StableSwapTypedFailures ==
    IsStableSwap =>
        /\ (\/ call.input_token \notin TokenSet(old)
            \/ call.output_token \notin TokenSet(old)) =>
               ret = Err("TokenNotFound")
        /\ NewOutputBalanceExceedsOld => ret = Err("InsufficientLiquidity")

(* C13, witness: a stable-swap whose solved output balance exceeded the old *)
C13_Witness ==
    IsStableSwap /\ NewOutputBalanceExceedsOld /\ call.input_token # call.output_token

----------------------------------------------------------------------------
IsConcentratedLiquiditySwap == call.op = "calculate_concentrated_liquidity_swap"

(* C14: for every pool and every input, calculate_multi_asset_swap and      *)
(* calculate_concentrated_liquidity_swap return an amount or a SwapError:   *)
(* none divides by zero or subtracts below zero.                            *)
C14_SwapsReturnAmountOrError ==
    (IsMultiAssetSwap \/ IsConcentratedLiquiditySwap) =>
        ret.tag \in {"Ok", "Err"}

(* C14, witness: a swap on a freshly constructed ConcentratedLiquidity pool *)
(* with both reserves positive                                              *)
C14_Witness ==
    /\ IsMultiAssetSwap
    /\ old.pool_type = "ConcentratedLiquidity" /\ old.total_supply = 0
    /\ call.input_token \in DOMAIN old.reserves
    /\ call.output_token \in DOMAIN old.reserves
    /\ \A t \in DOMAIN old.reserves : old.reserves[t] > 0
    /\ ret = Panic

----------------------------------------------------------------------------
----------------------------------------------------------------------------
(* A deposit into a pool with total_supply > 0 that succeeded *)
SuccessfulLaterDeposit ==
    IsDeposit /\ ret.tag = "Ok" /\ old.total_supply > 0

(* C16: after every successful add_liquidity on a pool with total_supply >  *)
(* 0, for every token the pool tracks, deposited or not,                    *)
(* reserve_after * total_supply_before >= reserve_before *                  *)
(* total_supply_after.                                                      *)
C16_DepositNeverDilutes ==
    SuccessfulLaterDeposit =>
        \A t \in DOMAIN old.reserves :
            pool.reserves[t] * old.total_supply
                >= old.reserves[t] * pool.total_supply

(* C16, what the code does keep: the same for every token the deposit names *)
C16_DepositedTokensNotDiluted ==
    SuccessfulLaterDeposit =>
        \A t \in DOMAIN call.token_amounts :
            pool.reserves[t] * old.total_supply
                >= old.reserves[t] * pool.total_supply

(* C16, witness: a deposit that names one of the pool's two tokens and is *)
(* paid in LP tokens                                                      *)
C16_Witness ==
    /\ SuccessfulLaterDeposit
    /\ DOMAIN call.token_amounts # DOMAIN old.reserves
    /\ \A t \in DOMAIN old.reserves : old.reserves[t] > 0
    /\ ret.value > 0

----------------------------------------------------------------------------
(* C17: every operation changes only its own fields: a swap computation     *)
(* leaves the pool as it was, update_dynamic_fee changes fee_rate only,     *)
(* add_liquidity changes only the values of reserves and total_supply; and  *)
(* no step of any operation changes pool_type, id, tokens or the key set of *)
(* reserves.                                                                *)
C17_OperationsChangeOnlyTheirFields ==
    /\ [](/\ (IsQuote \/ IsMultiAssetSwap) => pool = old
          /\ IsFeeUpdate => pool = [old EXCEPT !.fee_rate = pool.fee_rate]
          /\ IsDeposit =>
                 /\ pool = [old EXCEPT !.reserves = pool.reserves,
                                       !.total_supply = pool.total_supply]
                 /\ DOMAIN pool.reserves = DOMAIN old.reserves)
    /\ [][/\ pool'.pool_type = pool.pool_type
          /\ pool'.id = pool.id
          /\ pool'.tokens = pool.tokens
          /\ DOMAIN pool'.reserves = DOMAIN pool.reserves]_vars

(* C17, witness: a deposit that named a token the pool does not hold and *)
(* changed a reserve                                                      *)
C17_Witness ==
    /\ IsDeposit
    /\ DAI \in DOMAIN call.token_amounts
    /\ pool.reserves # old.reserves

----------------------------------------------------------------------------
(* The requests that hold the write guard, and those that hold a read guard *)
DepositsUnderWay ==
    {r \in Requests :
        api.req[r].pc \in {"deposit_locked", "deposit_updating", "deposit_done"}}

QuotesUnderWay == {r \in Requests : api.req[r].pc = "quote_locked"}

(* C18: requests on the pool store are serialized: two deposits never      *)
(* interleave (each starts from the pool the last one left and ends with   *)
(* what handle_add_liquidity makes of it, a rejected one with the pool as  *)
(* it was), and while a quote holds its read guard no deposit is under     *)
(* way, so every quote is computed from a pool that reflects only          *)
(* completely applied deposits.                                            *)
C18_RequestsAreSerialized ==
    /\ Cardinality(DepositsUnderWay) <= 1
    /\ \A r \in DepositsUnderWay :
           LET q == api.req[r]
               whole == handle_add_liquidity(q.base, q.pool_id,
                                             q.token_amounts, q.order)
           IN  /\ api.writer = r /\ api.readers = {}
               /\ q.base = api.committed
               /\ q.pc = "deposit_locked" => pool = q.base
               /\ q.pc = "deposit_updating" =>
                      /\ q.pool_id = pool.id
                      /\ q.lp = whole.ret.value
               /\ q.pc = "deposit_done" =>
                      /\ pool = whole.pool /\ q.result = whole.ret
                      /\ q.result.tag = "Err" => pool = q.base
    /\ api.readers = QuotesUnderWay
    /\ QuotesUnderWay # {} => api.writer = 0 /\ pool = api.committed
    /\ call.op = "handle_quote" =>
           /\ old = api.committed
           /\ ret = handle_quote(api.committed, call.input_token,
                                 call.output_token, call.input_amount)
    /\ call.op = "handle_add_liquidity" =>
           /\ pool = api.committed
           /\ ret.tag = "Err" => api.committed = old

(* C18, witness: a quote with a positive amount has just been replied from *)
(* a pool that a deposit has changed, while another quote holds its read   *)
(* guard                                                                   *)
C18_Witness ==
    /\ call.op = "handle_quote"
    /\ ret.tag = "Ok" /\ ret.value > 0
    /\ \E t \in {ETH, USDC} : api.committed.reserves[t] > MaxInitReserve
    /\ api.readers # {}

====
